---------------------------- MODULE Spec2Model ----------------------------
(***************************************************************************)
(* A model of twitter.common.config.properties.Properties: load / _parse   *)
(* (coalesce_lines, normalize, parse_line) and dump (escape, write).       *)
(*                                                                         *)
(* A Python string is a sequence of one-character strings.  A property map *)
(* (OrderedDict) is a sequence of <<key, value>> pairs with distinct keys, *)
(* in iteration order.                                                     *)
(*                                                                         *)
(* One behaviour is one session of a caller: either                        *)
(*   load(data), then dump(result, output), then load(what dump wrote), or *)
(*   dump(map, output), then load(what dump wrote).                        *)
(* _parse is stepped one raw line at a time (the generator coalesce_lines  *)
(* driven by the for loop of _parse), dump one write at a time.            *)
(***************************************************************************)
EXTENDS Naturals, Sequences, FiniteSets

VARIABLES
  pc,        \* position of the session: call_load, parse, call_dump, write, done, raised
  first,     \* which operation the session started with: "load" or "dump"
  round,     \* 1: the first load, 2: the load of dump's output, 0: no load yet
  data,      \* load's argument: [kind, text]
  reads,     \* number of data.read() calls made
  lines,     \* _parse's argument: contents.splitlines()
  idx,       \* number of raw lines line_iter has handed out
  buffer,    \* coalesce_lines' accumulation buffer
  logical,   \* the logical lines coalesce_lines has yielded so far, in order
  kv_pair,   \* parse_line's result for the last yielded line
  props,     \* the OrderedDict being filled by _parse / read by dump
  m0,        \* the map dump was called with
  output,    \* dump's destination kind: none, stream, path, other
  opened,    \* number of open(output, ...) calls made
  widx,      \* number of entries write() has gone through
  written,   \* the strings handed to out.write, in order
  raised     \* the exception that left the session, or "none"

vars == <<pc, first, round, data, reads, lines, idx, buffer, logical, kv_pair,
          props, m0, output, opened, widx, written, raised>>

(***************************************************************************)
(* Bounds of the model.                                                    *)
(***************************************************************************)
MaxText == 4       \* characters of a text given to load (all characters)
MaxTok == 1        \* characters of a key or a value of a map given to dump
MaxEntries == 2    \* entries of a map given to dump
MaxDupText == 6    \* characters of a text of key lines (the characters a = \ and line break)
MaxContText == 5   \* characters of a text of continued lines (a, space, = \ and line break)

(***************************************************************************)
(* Characters.                                                             *)
(***************************************************************************)
\* what str.strip() removes and what \s matches (of the characters modelled)
Whitespace == {" ", "\t", "\n"}

\* the class [:=\s] of normalize's and escape's patterns
EscapeClass == {":", "="} \cup Whitespace

\* the class [=:] of _EXPLICIT_KV_SEP
SepClass == {"=", ":"}

Char == {"a", "=", ":", " ", "\t", "\\", "#", "!", "\n"}

NoPair == <<>>     \* parse_line returning None

SeqsUpTo(S, n) == UNION {[1..k -> S] : k \in 0..n}

(***************************************************************************)
(* String primitives.                                                      *)
(***************************************************************************)
RECURSIVE LStrip(_)
LStrip(s) ==
  IF s = <<>> THEN s
  ELSE IF Head(s) \in Whitespace THEN LStrip(Tail(s)) ELSE s

RECURSIVE RStrip(_)
RStrip(s) ==
  IF s = <<>> THEN s
  ELSE IF s[Len(s)] \in Whitespace THEN RStrip(SubSeq(s, 1, Len(s) - 1)) ELSE s

Strip(s) == RStrip(LStrip(s))

EndsWith(s, c) == s # <<>> /\ s[Len(s)] = c

StartsWith(s, c) == s # <<>> /\ s[1] = c

\* s[:-1]
DropLast(s) == SubSeq(s, 1, Len(s) - 1)

\* str.find(c) + 1: the index of the first c in s, 0 when there is none
RECURSIVE Find(_, _)
Find(s, c) ==
  IF s = <<>> THEN 0
  ELSE IF Head(s) = c THEN 1
  ELSE LET r == Find(Tail(s), c) IN IF r = 0 THEN 0 ELSE r + 1

\* str.splitlines(): split at each line break, no empty last line
RECURSIVE SplitLines(_)
SplitLines(t) ==
  IF t = <<>> THEN <<>>
  ELSE LET i == Find(t, "\n") IN
       IF i = 0 THEN <<t>>
       ELSE <<SubSeq(t, 1, i - 1)>> \o SplitLines(SubSeq(t, i + 1, Len(t)))

RECURSIVE Concat(_)
Concat(ss) == IF ss = <<>> THEN <<>> ELSE Head(ss) \o Concat(Tail(ss))


(***************************************************************************)
(* _parse: the helpers.                                                    *)
(***************************************************************************)
\* line.strip().endswith('\\')
IsContinuation(line) == EndsWith(Strip(line), "\\")

\* A continuation contributes line.strip() with its last character taken off
\* before the strip was undone at the right end
ContinuationSegmentStripped(line) == Strip(DropLast(Strip(line)))

\* line.strip()[:-1], what a continuation line adds to the buffer
ContinuationSegment(line) == DropLast(Strip(line))

\* the line handed to the consumer at a line that is no continuation
CompletedLine(buf, line) ==
  IF buf # <<>> THEN buf \o RStrip(line) ELSE Strip(line)

\* re.sub(r'\\([:=\s])', r'\1', s): leftmost, non-overlapping matches
RECURSIVE Unescape(_)
Unescape(s) ==
  IF s = <<>> THEN s
  ELSE IF Head(s) = "\\" /\ Len(s) >= 2 /\ s[2] \in EscapeClass
       THEN <<s[2]>> \o Unescape(SubSeq(s, 3, Len(s)))
       ELSE <<Head(s)>> \o Unescape(Tail(s))

normalize(atom) == Unescape(Strip(atom))

\* a search for [=:] that does not look behind for a backslash
RECURSIVE AnySepFrom(_, _)
AnySepFrom(line, i) ==
  IF i > Len(line) THEN 0
  ELSE IF line[i] \in SepClass THEN i ELSE AnySepFrom(line, i + 1)

ExplicitSepAny(line) == AnySepFrom(line, 1)

\* _EXPLICIT_KV_SEP.search(line) from position i on: (?<!\\)[=:]
RECURSIVE SepFrom(_, _)
SepFrom(line, i) ==
  IF i > Len(line) THEN 0
  ELSE IF line[i] \in SepClass /\ (i = 1 \/ line[i - 1] # "\\") THEN i
  ELSE SepFrom(line, i + 1)

\* match.start() + 1 of _EXPLICIT_KV_SEP.search(line), 0 when there is no match
ExplicitSep(line) == SepFrom(line, 1)

\* a separator search that takes any whitespace character for the space
RECURSIVE WsFrom(_, _)
WsFrom(line, i) ==
  IF i > Len(line) THEN 0
  ELSE IF line[i] \in Whitespace THEN i ELSE WsFrom(line, i + 1)

SpaceSepAnyWhitespace(line) == WsFrom(line, 1)

\* line.find(' ') + 1
SpaceSep(line) == Find(line, " ")

\* a comment test that knows '#' only
IsCommentHashOnly(line) == StartsWith(line, "#")

\* line.startswith('#') or line.startswith('!')
IsComment(line) == StartsWith(line, "#") \/ StartsWith(line, "!")

parse_line(line) ==
  IF line # <<>> /\ ~IsComment(line)
  THEN LET m == ExplicitSep(line) IN
       IF m # 0
       THEN <<normalize(SubSeq(line, 1, m - 1)), normalize(SubSeq(line, m + 1, Len(line)))>>
       ELSE LET space_sep == SpaceSep(line) IN
            IF space_sep = 0
            THEN <<normalize(line), <<>> >>
            ELSE <<normalize(SubSeq(line, 1, space_sep - 1)),
                   normalize(SubSeq(line, space_sep, Len(line)))>>
  ELSE NoPair

(***************************************************************************)
(* The ordered map.                                                        *)
(***************************************************************************)
KeysOf(m) == {m[i][1] : i \in 1..Len(m)}

\* OrderedDict.__setitem__: a new key goes to the end, a known key keeps its
\* place and takes the new value
SetItem(m, k, v) ==
  IF k \in KeysOf(m)
  THEN [i \in 1..Len(m) |-> IF m[i][1] = k THEN <<k, v>> ELSE m[i]]
  ELSE Append(m, <<k, v>>)

\* a store that keeps the value a key already has
StoreFirstWins(m, kv) ==
  IF kv = NoPair \/ kv[1] \in KeysOf(m) THEN m ELSE Append(m, kv)

\* if kv_pair: key, value = kv_pair; props[key] = value
\* (a pair is a tuple of two, true whatever it holds; None is false)
Store(m, kv) == IF kv = NoPair THEN m ELSE SetItem(m, kv[1], kv[2])

(***************************************************************************)
(* dump: the helpers.                                                      *)
(***************************************************************************)
\* re.sub(r'([=:\s])', r'\\\1', token)
RECURSIVE escape(_)
escape(token) ==
  IF token = <<>> THEN token
  ELSE (IF Head(token) \in EscapeClass THEN <<"\\", Head(token)>> ELSE <<Head(token)>>)
       \o escape(Tail(token))

\* '%s=%s\n' % (escape(str(k)), escape(str(v))); str() of a string is that string
EntryLine(kv) == escape(kv[1]) \o <<"=">> \o escape(kv[2]) \o <<"\n">>

(***************************************************************************)
(* Inputs.                                                                 *)
(***************************************************************************)
\* load's argument: a string, an object with a callable read, or neither
DataOf(Texts) ==
  [kind : {"string", "stream"}, text : Texts] \cup {[kind |-> "other", text |-> <<>>]}

\* the ordered maps of at most n entries with keys and values among Toks
MapsOf(Toks, n) ==
  {m \in SeqsUpTo(Toks \X Toks, n) :
     \A i, j \in 1..Len(m) : i # j => m[i][1] # m[j][1]}

LoadTypeErrorMsg == "TypeError: Can only process data from a string or a readable object"

DumpTypeErrorMsg == "TypeError: Can only dump data to a path or a writable object"

\* a session that starts with load(d)
InitLoad(D) ==
  /\ data \in D
  /\ pc = "call_load" /\ first = "load" /\ round = 1
  /\ props = <<>> /\ m0 = <<>>
  /\ reads = 0 /\ lines = <<>> /\ idx = 0 /\ buffer = <<>>
  /\ logical = <<>> /\ kv_pair = NoPair
  /\ output = "none" /\ opened = 0 /\ widx = 0 /\ written = <<>>
  /\ raised = "none"

\* a session that starts with dump(m, output)
InitDump(M) ==
  /\ props \in M
  /\ pc = "call_dump" /\ first = "dump" /\ round = 0
  /\ data = [kind |-> "none", text |-> <<>>] /\ m0 = <<>>
  /\ reads = 0 /\ lines = <<>> /\ idx = 0 /\ buffer = <<>>
  /\ logical = <<>> /\ kv_pair = NoPair
  /\ output = "none" /\ opened = 0 /\ widx = 0 /\ written = <<>>
  /\ raised = "none"

(***************************************************************************)
(* load.                                                                   *)
(***************************************************************************)
\* entering _parse(contents.splitlines()): line_iter, buffer = '', props = OrderedDict()
EnterParse(contents) ==
  /\ lines' = SplitLines(contents)
  /\ idx' = 0 /\ buffer' = <<>> /\ props' = <<>>
  /\ logical' = <<>> /\ kv_pair' = NoPair
  /\ pc' = "parse"

\* hasattr(data, 'read') and callable(data.read): contents = data.read()
LoadRead ==
  /\ pc = "call_load" /\ data.kind = "stream"
  /\ reads' = reads + 1
  /\ EnterParse(data.text)
  /\ UNCHANGED <<first, round, data, m0, output, opened, widx, written, raised>>

\* isinstance(data, Compatibility.string): contents = data
LoadString ==
  /\ pc = "call_load" /\ data.kind = "string"
  /\ EnterParse(data.text)
  /\ UNCHANGED <<first, round, data, reads, m0, output, opened, widx, written, raised>>

\* else: raise TypeError(...)
LoadTypeError ==
  /\ pc = "call_load" /\ data.kind \notin {"stream", "string"}
  /\ pc' = "raised" /\ raised' = LoadTypeErrorMsg
  /\ UNCHANGED <<first, round, data, reads, lines, idx, buffer, logical, kv_pair,
                 props, m0, output, opened, widx, written>>

\* coalesce_lines at a continuation line: buffer += line.strip()[:-1], nothing yielded
CoalesceContinuation ==
  /\ pc = "parse" /\ idx < Len(lines)
  /\ IsContinuation(lines[idx + 1])
  /\ buffer' = buffer \o ContinuationSegment(lines[idx + 1])
  /\ idx' = idx + 1
  /\ UNCHANGED <<pc, first, round, data, reads, lines, logical, kv_pair,
                 props, m0, output, opened, widx, written, raised>>

\* coalesce_lines at any other line: the buffer is completed and yielded, the body
\* of _parse's for loop runs on it, and the generator's finally empties the buffer
CoalesceYield ==
  /\ pc = "parse" /\ idx < Len(lines)
  /\ ~IsContinuation(lines[idx + 1])
  /\ LET line == CompletedLine(buffer, lines[idx + 1])
         kv == parse_line(line)
     IN /\ logical' = Append(logical, line)
        /\ kv_pair' = kv
        /\ props' = Store(props, kv)
  /\ buffer' = <<>>
  /\ idx' = idx + 1
  /\ UNCHANGED <<pc, first, round, data, reads, lines, m0, output, opened, widx,
                 written, raised>>

\* an end of input that hands out what is left in the buffer
ParseReturnFlush ==
  /\ pc = "parse" /\ idx = Len(lines)
  /\ props' = IF buffer = <<>> THEN props ELSE Store(props, parse_line(buffer))
  /\ buffer' = <<>>
  /\ pc' = IF round = 1 THEN "call_dump" ELSE "done"
  /\ UNCHANGED <<first, round, data, reads, lines, idx, logical, kv_pair,
                 m0, output, opened, widx, written, raised>>

\* next(line_iter) raises StopIteration: the generator ends, whatever the buffer
\* holds, the for loop ends and _parse returns props
ParseReturn ==
  /\ pc = "parse" /\ idx = Len(lines)
  /\ pc' = IF round = 1 THEN "call_dump" ELSE "done"
  /\ UNCHANGED <<first, round, data, reads, lines, idx, buffer, logical, kv_pair,
                 props, m0, output, opened, widx, written, raised>>

(***************************************************************************)
(* dump.                                                                   *)
(***************************************************************************)
\* hasattr(output, 'write') and callable(output.write): write(output)
DumpStream ==
  /\ pc = "call_dump"
  /\ output' = "stream" /\ m0' = props /\ widx' = 0
  /\ pc' = "write"
  /\ UNCHANGED <<first, round, data, reads, lines, idx, buffer, logical, kv_pair,
                 props, opened, written, raised>>

\* isinstance(output, Compatibility.string): with open(output, 'w+a') as out: write(out)
DumpPath ==
  /\ pc = "call_dump"
  /\ output' = "path" /\ m0' = props /\ widx' = 0
  /\ opened' = opened + 1
  /\ pc' = "write"
  /\ UNCHANGED <<first, round, data, reads, lines, idx, buffer, logical, kv_pair,
                 props, written, raised>>

\* open(output, 'w+a') fails (the path, or a runtime that rejects the mode string):
\* the error leaves dump unmodified
DumpOpenError ==
  /\ pc = "call_dump"
  /\ output' = "path" /\ m0' = props
  /\ opened' = opened + 1
  /\ pc' = "raised" /\ raised' = "open failed"
  /\ UNCHANGED <<first, round, data, reads, lines, idx, buffer, logical, kv_pair,
                 props, widx, written>>

\* a dump that opens its destination before it looks at what it is
DumpTypeErrorAfterOpen ==
  /\ pc = "call_dump"
  /\ output' = "other" /\ m0' = props
  /\ opened' = opened + 1
  /\ pc' = "raised" /\ raised' = DumpTypeErrorMsg
  /\ UNCHANGED <<first, round, data, reads, lines, idx, buffer, logical, kv_pair,
                 props, widx, written>>

\* else: raise TypeError(...)
DumpTypeError ==
  /\ pc = "call_dump"
  /\ output' = "other" /\ m0' = props
  /\ pc' = "raised" /\ raised' = DumpTypeErrorMsg
  /\ UNCHANGED <<first, round, data, reads, lines, idx, buffer, logical, kv_pair,
                 props, opened, widx, written>>

\* one turn of write's loop: out.write('%s=%s\n' % (escape(str(k)), escape(str(v))))
DumpWrite ==
  /\ pc = "write" /\ widx < Len(props)
  /\ written' = Append(written, EntryLine(props[widx + 1]))
  /\ widx' = widx + 1
  /\ UNCHANGED <<pc, first, round, data, reads, lines, idx, buffer, logical, kv_pair,
                 props, m0, output, opened, raised>>

\* write's loop is over and dump returns (a file it opened is closed); the caller
\* then loads the text that was written
DumpReturn ==
  /\ pc = "write" /\ widx = Len(props)
  /\ data' = [kind |-> "string", text |-> Concat(written)]
  /\ round' = 2
  /\ pc' = "call_load"
  /\ UNCHANGED <<first, reads, lines, idx, buffer, logical, kv_pair,
                 props, m0, output, opened, widx, written, raised>>

Next ==
  \/ LoadRead
  \/ LoadString
  \/ LoadTypeError
  \/ CoalesceContinuation
  \/ CoalesceYield
  \/ ParseReturn
  \/ DumpStream
  \/ DumpPath
  \/ DumpOpenError
  \/ DumpTypeError
  \/ DumpWrite
  \/ DumpReturn

(***************************************************************************)
(* Specifications: the same program on different families of inputs.       *)
(***************************************************************************)
\* every text of at most MaxText characters
Init == InitLoad(DataOf(SeqsUpTo(Char, MaxText)))

Spec == Init /\ [][Next]_vars

\* texts of the lines "a", "=", "a=", "=a", ...: the same key on several lines
DupChar == {"a", "=", "\\", "\n"}

InitDup == InitLoad(DataOf(SeqsUpTo(DupChar, MaxDupText)))

SpecDup == InitDup /\ [][Next]_vars

\* texts of lines that end, or do not end, with a backslash
ContChar == {"a", " ", "=", "\\", "\n"}

InitCont == InitLoad(DataOf(SeqsUpTo(ContChar, MaxContText)))

SpecCont == InitCont /\ [][Next]_vars

\* every map of at most MaxEntries entries with keys and values of at most MaxTok
\* characters, dumped and loaded again; and load called on the shortest texts
InitMaps ==
  \/ InitDump(MapsOf(SeqsUpTo(Char, MaxTok), MaxEntries))
  \/ InitLoad(DataOf(SeqsUpTo(Char, 1)))

SpecMaps == InitMaps /\ [][Next]_vars

(***************************************************************************)
(* Vocabulary of the properties, written from positions in the string      *)
(* rather than by scanning it.                                             *)
(***************************************************************************)
Last(s) == s[Len(s)]

Min(S) == CHOOSE x \in S : \A y \in S : x <= y

Max(S) == CHOOSE x \in S : \A y \in S : x >= y

\* s without the whitespace at its two ends
Trimmed(s) ==
  LET solid == {i \in 1..Len(s) : s[i] \notin Whitespace} IN
  IF solid = {} THEN <<>> ELSE SubSeq(s, Min(solid), Max(solid))

\* s without the whitespace at its right end
RTrimmed(s) ==
  LET solid == {i \in 1..Len(s) : s[i] \notin Whitespace} IN
  IF solid = {} THEN <<>> ELSE SubSeq(s, 1, Max(solid))

\* the characters of s at the positions keep, in order
Pick(s, keep) ==
  [j \in 1..Cardinality(keep) |->
     s[CHOOSE i \in keep : Cardinality({x \in keep : x <= i}) = j]]

\* s without each backslash that stands before ':', '=' or a whitespace character
Unescaped(s) ==
  Pick(s, {i \in 1..Len(s) :
             ~(s[i] = "\\" /\ i < Len(s) /\ s[i + 1] \in EscapeClass)})

Normalized(s) == Unescaped(Trimmed(s))

\* a backslash put before each ':', '=' and whitespace character of t
Escaped(t) ==
  Concat([i \in 1..Len(t) |-> IF t[i] \in EscapeClass THEN <<"\\", t[i]>> ELSE <<t[i]>>])

CountSep(s) == Cardinality({i \in 1..Len(s) : s[i] \in SepClass})

\* positions of the '=' and ':' of l that no backslash stands before
UnescapedSeps(l) ==
  {i \in 1..Len(l) : l[i] \in SepClass /\ (i = 1 \/ l[i - 1] # "\\")}

Spaces(l) == {i \in 1..Len(l) : l[i] = " "}

\* empty, or a comment
Skipped(l) == l = <<>> \/ l[1] \in {"#", "!"}

\* kv_pair is parse_line's answer for the last logical line yielded
Parsed == logical # <<>>

\* load has returned its map
LoadReturned == (pc = "call_dump" /\ first = "load") \/ pc = "done"

(***************************************************************************)
(* C2. Explicit separator: a logical line that is neither empty nor a      *)
(* comment and holds a '=' or ':' with no backslash right before it is     *)
(* split at the leftmost such character p: the key is the normalized text  *)
(* before p, the value the normalized text after p.  A '=' or ':' with a   *)
(* backslash right before it is never the separator, and every such        *)
(* character of the line is a character of the key or of the value.        *)
(***************************************************************************)
C2_ExplicitSeparator ==
  Parsed =>
    LET l == Last(logical)
        S == UnescapedSeps(l)
    IN (~Skipped(l) /\ S # {}) =>
         LET p == Min(S) IN
         /\ kv_pair = <<Normalized(SubSeq(l, 1, p - 1)),
                        Normalized(SubSeq(l, p + 1, Len(l)))>>
         /\ CountSep(kv_pair[1]) = CountSep(SubSeq(l, 1, p - 1))
         /\ CountSep(kv_pair[2]) = CountSep(SubSeq(l, p + 1, Len(l)))

\* the line \:=a was parsed: key ":", value "a"
C2_Witness ==
  /\ Parsed
  /\ Last(logical) = <<"\\", ":", "=", "a">>
  /\ kv_pair = << <<":">>, <<"a">> >>

(***************************************************************************)
(* C3. Space fallback: a logical line that is neither empty nor a comment  *)
(* and holds no unescaped '=' or ':' is split at its first space p: the    *)
(* key is the normalized text before p, the value the normalized text from *)
(* p on, which is the normalized text after p (the separating space is no  *)
(* part of the value).  With no space, the key is the whole normalized     *)
(* line and the value is empty.                                            *)
(***************************************************************************)
C3_SpaceFallback ==
  Parsed =>
    LET l == Last(logical) IN
    (~Skipped(l) /\ UnescapedSeps(l) = {}) =>
      IF Spaces(l) # {}
      THEN LET p == Min(Spaces(l)) IN
           /\ kv_pair = <<Normalized(SubSeq(l, 1, p - 1)),
                          Normalized(SubSeq(l, p, Len(l)))>>
           /\ kv_pair[2] = Normalized(SubSeq(l, p + 1, Len(l)))
      ELSE kv_pair = <<Normalized(l), <<>> >>

\* the line \= a was parsed: key "=", value "a"
C3_Witness ==
  /\ Parsed
  /\ Last(logical) = <<"\\", "=", " ", "a">>
  /\ kv_pair = << <<"=">>, <<"a">> >>

(***************************************************************************)
(* C6. Comments and blanks: a logical line gives a pair if and only if it  *)
(* is not empty and does not begin with '#' or '!'.  Yielding a skipped    *)
(* line leaves the map as it was, whatever follows the marker; yielding    *)
(* any other line puts exactly its one pair in the map; nothing is raised  *)
(* while parsing.                                                          *)
(***************************************************************************)
C6_State ==
  /\ pc = "parse" => raised = "none"
  /\ Parsed =>
       /\ kv_pair = NoPair <=> Skipped(Last(logical))
       /\ kv_pair # NoPair =>
            /\ Len(kv_pair) = 2
            /\ \E i \in 1..Len(props) : props[i] = kv_pair

C6_Step ==
  Len(logical') = Len(logical) + 1 =>
    IF Skipped(Last(logical'))
    THEN props' = props
    ELSE /\ KeysOf(props') = KeysOf(props) \cup {kv_pair'[1]}
         /\ Len(props') = Cardinality(KeysOf(props'))

\* C6. Comments and blanks: in every state a logical line has given a pair if and
\* only if it is neither empty nor a comment, and that pair is in the map; at every
\* step a skipped line leaves the map unchanged and any other line adds its one key
C6_CommentsAndBlanks == []C6_State /\ [][C6_Step]_vars

\* after the line a, the comment != was yielded and the map still holds a alone
C6_Witness ==
  /\ Len(logical) = 2
  /\ Last(logical) = <<"!", "=">>
  /\ kv_pair = NoPair
  /\ props = << << <<"a">>, <<>> >> >>

(***************************************************************************)
(* C7. Fail-fast type errors: load given neither a string nor a readable   *)
(* raises its TypeError with nothing read, split or parsed and no map      *)
(* returned; dump given neither a path nor a writable raises its TypeError *)
(* with nothing written, no file opened and the map as it was.             *)
(***************************************************************************)
C7_State ==
  /\ raised = LoadTypeErrorMsg =>
       /\ pc = "raised" /\ reads = 0 /\ lines = <<>> /\ idx = 0
       /\ logical = <<>> /\ props = <<>>
  /\ raised = DumpTypeErrorMsg =>
       /\ pc = "raised" /\ written = <<>> /\ opened = 0 /\ props = m0

C7_Step ==
  /\ (pc = "call_load" /\ data.kind \notin {"string", "stream"}) =>
       /\ raised' = LoadTypeErrorMsg
       /\ UNCHANGED <<reads, lines, idx, buffer, logical, kv_pair, props>>
  /\ (pc = "call_dump" /\ output' = "other") =>
       /\ raised' = DumpTypeErrorMsg
       /\ UNCHANGED <<written, opened, widx, props>>

\* C7. Fail-fast type errors: a call with an argument of neither accepted shape
\* raises the TypeError in a step that reads, splits, parses, opens and writes nothing
\* and leaves the map alone, and no such state shows any of these effects
C7_FailFast == []C7_State /\ [][C7_Step]_vars

\* dump refused its destination after a load from a stream had filled the map
C7_Witness ==
  /\ raised = DumpTypeErrorMsg
  /\ reads = 1
  /\ props # <<>>

\* the logical lines, by number, that gave the key k
LinesGiving(k) ==
  {j \in 1..Len(logical) : parse_line(logical[j]) # NoPair /\ parse_line(logical[j])[1] = k}

(***************************************************************************)
(* C5. Duplicate keys: while and after load fills the map, each key of it  *)
(* occurs once and maps to the value of the last logical line that gave    *)
(* that key, every key a line gave is in the map, and the keys stand in    *)
(* the order of their first occurrence.                                    *)
(***************************************************************************)
C5_DuplicateKeys ==
  /\ \A j \in 1..Len(logical) :
       parse_line(logical[j]) # NoPair => parse_line(logical[j])[1] \in KeysOf(props)
  /\ Parsed =>
       \A i \in 1..Len(props) :
         LET occ == LinesGiving(props[i][1]) IN
         /\ occ # {}
         /\ props[i][2] = parse_line(logical[Max(occ)])[2]
         /\ \A h \in 1..Len(props) :
              h < i => /\ props[h][1] # props[i][1]
                       /\ Min(LinesGiving(props[h][1])) < Min(occ)

\* the lines "=", "a", "=a" were loaded: the empty key stays first, with value "a"
C5_Witness ==
  /\ LoadReturned
  /\ logical = << <<"=">>, <<"a">>, <<"=", "a">> >>
  /\ props = << << <<>>, <<"a">> >>, << <<"a">>, <<>> >> >>

(***************************************************************************)
(* Continuation joining (C9): the text a run of continuation lines leaves  *)
(* in the buffer, as the claim words it and as the lines are joined.       *)
(***************************************************************************)
\* the raw lines j, j-1, ... that are continuations, joined as the claim words it:
\* each without its backslash and with no whitespace at either end
RECURSIVE RunTextTrimmed(_)
RunTextTrimmed(j) ==
  IF j = 0 \/ ~EndsWith(Trimmed(lines[j]), "\\") THEN <<>>
  ELSE RunTextTrimmed(j - 1) \o Trimmed(DropLast(Trimmed(lines[j])))

\* the same run, each line trimmed at both ends and then rid of its backslash
RECURSIVE RunText(_)
RunText(j) ==
  IF j = 0 \/ ~EndsWith(Trimmed(lines[j]), "\\") THEN <<>>
  ELSE RunText(j - 1) \o DropLast(Trimmed(lines[j]))

\* raw line idx closed a run of at least one continuation line
RunClosed ==
  /\ idx >= 2
  /\ ~EndsWith(Trimmed(lines[idx]), "\\")
  /\ EndsWith(Trimmed(lines[idx - 1]), "\\")

RECURSIVE MapOf(_)
MapOf(ls) ==
  IF ls = <<>> THEN <<>>
  ELSE LET m == MapOf(DropLast(ls))
           kv == parse_line(Last(ls))
       IN IF kv = NoPair THEN m
          ELSE IF \E i \in 1..Len(m) : m[i][1] = kv[1]
               THEN [i \in 1..Len(m) |-> IF m[i][1] = kv[1] THEN kv ELSE m[i]]
               ELSE m \o <<kv>>

C10_State ==
  /\ pc = "parse" => idx <= Len(lines) /\ raised = "none"
  /\ LoadReturned =>
       /\ raised \in {"none", DumpTypeErrorMsg, "open failed"}
       /\ idx = Len(lines)
       /\ Len(logical) <= Len(lines)
       /\ Len(logical) =
            Cardinality({i \in 1..Len(lines) : ~EndsWith(Trimmed(lines[i]), "\\")})
       /\ props = MapOf(logical)

C10_Step ==
  pc = "parse" =>
    \/ /\ idx < Len(lines)
       /\ idx' = idx + 1 /\ pc' = "parse" /\ lines' = lines
    \/ /\ idx = Len(lines)
       /\ pc' \in {"call_dump", "done"}
       /\ UNCHANGED <<props, logical, raised, lines, idx>>

\* C10. Unterminated continuation: the parse takes one raw line per step and returns
\* at their end without touching the map or raising, and the returned map holds the
\* pairs of the completed logical lines only, one per raw line that is no continuation
C10_UnterminatedContinuation == []C10_State /\ [][C10_Step]_vars

\* the lines "a" and "a\" were loaded: the pending "a" is in the buffer, the map
\* holds the first line alone
C10_Witness ==
  /\ LoadReturned
  /\ lines = << <<"a">>, <<"a", "\\">> >>
  /\ buffer = <<"a">>
  /\ logical = << <<"a">> >>
  /\ props = << << <<"a">>, <<>> >> >>

(***************************************************************************)
(* C1. Round trip: a map in which no key begins with '#' or '!', dumped    *)
(* and loaded again, comes back equal: same keys, same values, same order. *)
(***************************************************************************)
C1_RoundTrip ==
  (pc = "done" /\ first = "dump"
     /\ \A i \in 1..Len(m0) : ~(StartsWith(m0[i][1], "#") \/ StartsWith(m0[i][1], "!")))
  => props = m0

(***************************************************************************)
(* C4. Dump output: one write per entry, in the map's order, each write    *)
(* escaped key, '=', escaped value, line break; the output has exactly as  *)
(* many lines as the map has entries.                                      *)
(***************************************************************************)
C4_OneLinePerEntry ==
  (round = 2 /\ pc = "call_load") =>
    /\ Len(written) = Len(m0)
    /\ \A i \in 1..Len(m0) :
         written[i] = Escaped(m0[i][1]) \o <<"=">> \o Escaped(m0[i][2]) \o <<"\n">>
    /\ Len(SplitLines(Concat(written))) = Len(m0)

=============================================================================
